---- MODULE Spec2Model ----
(***************************************************************************)
(* Job Hunter Sentinel (apps/jobsrapper): the classification client        *)
(* (llm_filter.py: _parse_response, _call_openrouter, evaluate_job_async), *)
(* the evaluation engine (OpenRouterLLMFilter.filter_jobs_async), the      *)
(* recipient router (EmailSender.filter_jobs_for_recipient), the dispatch  *)
(* loop (EmailSender.send_daily_digest) and the orchestrator               *)
(* (JobHunterSentinel.run).                                                *)
(*                                                                         *)
(* Specifications:                                                         *)
(*   SpecClassify  one evaluate_job_async call, every upstream outcome     *)
(*   SpecEngine    one filter_jobs_async call, tasks completing in any     *)
(*                 order                                                   *)
(*   SpecRouter    filter_jobs_for_recipient on every small jobs-by-term   *)
(*                 map                                                     *)
(*   Spec          JobHunterSentinel.run, run after run, with the          *)
(*                 DataManager of data_manager.py                          *)
(*   SpecPipeline  the same run with a DataManager whose save_jobs takes   *)
(*                 the prefix keyword that run() passes                    *)
(*   SpecFilterModes  SpecPipeline with USE_LLM_FILTER true or false       *)
(*   SpecNoUrl     SpecPipeline on postings of which some have no job_url  *)
(*   SpecEngineLive  SpecEngine under fair scheduling of its steps         *)
(*   SpecTerms     get_all_search_terms on every small RECIPIENTS list     *)
(***************************************************************************)
EXTENDS Integers, Sequences, FiniteSets, TLC

VARIABLES
    \* ---- one evaluate_job_async call (SpecClassify)
    cpc,            \* "idle" | "start" | "calling" | "parsing" | "done"
    cjob,           \* the job being evaluated
    cresp,          \* what _call_openrouter returned (a text or None)
    cverdict,       \* the dict evaluate_job_async returned
    craised,        \* the exception that left evaluate_job_async ("none")
    ccalls,         \* number of upstream requests issued for cjob
    coutcome,       \* the upstream outcome of the request
    \* ---- one filter_jobs_async call (SpecEngine)
    epc,            \* "idle" | "batch" | "gathered" | "returned"
    jobs_list,      \* the input list, as it was passed
    dicts,          \* the dicts of the input list, as they are now
    model,          \* self.model
    rate_limit_delay, \* self.rate_limit_delay
    concurrency,    \* self.concurrency
    sessions,       \* number of aiohttp.ClientSession objects opened
    batch,          \* jobs = jobs_list[idx: idx + self.concurrency]
    task,           \* per task of the batch: "created" | "inflight" | "done"
    taskResult,     \* per task: the verdict its coroutine returned
    order,          \* task indices in the order the tasks completed
    results,        \* [(job, evaluation)]
    filtered,       \* the list filter_jobs_async returns
    sleeps,         \* number of asyncio.sleep(rate_limit_delay) calls
    \* ---- one filter_jobs_for_recipient call (SpecRouter)
    rpc,            \* "idle" | "input" | "routed"
    rmap,           \* jobs_by_term: a sequence of <<term, jobs>> (dict order)
    rrecipient,     \* the Recipient
    rout,           \* the list returned
    \* ---- JobHunterSentinel.run (Spec, SpecPipeline)
    pc,             \* position of the run
    env,            \* the environment the process is started in
    board,          \* job_url of the postings on the job boards (0: none)
    dmParams,       \* keyword parameters DataManager.save_jobs accepts
    store,          \* the Dedup Store: ids marked as sent
    run,            \* number of the current run
    term_idx,       \* index into all_search_terms
    jobs_df,        \* postings scraped for the current term
    new_jobs,       \* filter_new_jobs(jobs_list)
    jobs_by_term,   \* sequence of <<term, jobs>> in insertion order
    email_results,  \* recipient index -> "none" | "ok" | "failed"
    fault,          \* the collaborator failure that ended the run ("none")
    hist,           \* observations of the current run
    \* ---- one get_all_search_terms call (SpecTerms)
    tpc,            \* "idle" | "input" | "collected"
    trecipients,    \* the list of Recipient passed
    tterms          \* the list returned

cvars == <<cpc, cjob, cresp, cverdict, craised, ccalls, coutcome>>
evars == <<epc, jobs_list, dicts, model, rate_limit_delay, concurrency,
           sessions, batch, task, taskResult, order, results, filtered, sleeps>>
rvars == <<rpc, rmap, rrecipient, rout>>
pvars == <<pc, env, board, dmParams, store, run, term_idx, jobs_df, new_jobs,
           jobs_by_term, email_results, fault, hist>>
tvars == <<tpc, trecipients, tterms>>
vars == <<cvars, evars, rvars, pvars, tvars>>

(***************************************************************************)
(* Bounds of the model.                                                    *)
(***************************************************************************)
MaxTextLen == 3
MaxJobs == 3
MaxConcurrency == 2

Min(a, b) == IF a < b THEN a ELSE b
Max(a, b) == IF a < b THEN b ELSE a

(***************************************************************************)
(* Verdicts: the dict an evaluation returns.  A key the code leaves out    *)
(* ("skipped", "error") reads as False through .get(key, False).           *)
(***************************************************************************)
Verdict(km, vs, el, phd, intern, reason, skipped, error, title) ==
    [keyword_match |-> km, visa_sponsorship |-> vs, entry_level |-> el,
     requires_phd |-> phd, is_internship |-> intern, reason |-> reason,
     skipped |-> skipped, error |-> error, job_title |-> title]

\* the value standing for "no dict" (a job without the key llm_evaluation)
NoEval == Verdict(FALSE, FALSE, FALSE, FALSE, FALSE, "<absent>", FALSE, FALSE, 0)

Job(title, url, desc) ==
    [title |-> title, job_url |-> url, desc |-> desc, llm_evaluation |-> NoEval]

(***************************************************************************)
(* Response texts.  A text is a sequence of tokens: an opening brace, a    *)
(* closing brace, commentary, commentary holding the words "no sponsor",   *)
(* or a key/value pair  "key": true|false  of the verdict object.          *)
(***************************************************************************)
Keys == {"keyword_match", "visa_sponsorship", "entry_level", "requires_phd",
         "is_internship"}

LBrace == [t |-> "{", k |-> "", v |-> FALSE]
RBrace == [t |-> "}", k |-> "", v |-> FALSE]
Words == [t |-> "words", k |-> "", v |-> FALSE]
NoSponsorWords == [t |-> "no sponsor", k |-> "", v |-> FALSE]
Pair(k, v) == [t |-> "pair", k |-> k, v |-> v]

Tokens == {LBrace, RBrace, Words, NoSponsorWords}
              \cup {Pair(k, v) : k \in Keys, v \in BOOLEAN}

TextsOfLen(n) == [1..n -> Tokens]
Texts == UNION {TextsOfLen(n) : n \in 0..MaxTextLen}

\* tokens of prose: everything but a brace
Commentary == Tokens \ {LBrace, RBrace}

\* an object of pairs with one token of commentary before it and one after
WrappedTexts ==
    {<<a, LBrace>> \o body \o <<RBrace, b>> :
        a \in Commentary, b \in Commentary,
        body \in UNION {[1..n -> {Pair(k, v) : k \in Keys, v \in BOOLEAN}] :
                           n \in 0..(MaxTextLen - 2)}}

FindStartOfText(text) ==
    IF \E i \in 1..Len(text) : text[i] = LBrace THEN 0 ELSE -1

\* str.find('{'): index of the first opening brace, -1 when there is none
\* (0-based, as in Python)
Find(text) ==
    IF \E i \in 1..Len(text) : text[i] = LBrace
    THEN (CHOOSE i \in 1..Len(text) :
              /\ text[i] = LBrace
              /\ \A j \in 1..(i - 1) : text[j] # LBrace) - 1
    ELSE -1

\* str.rfind('}'): index of the last closing brace, -1 when there is none
RFind(text) ==
    IF \E i \in 1..Len(text) : text[i] = RBrace
    THEN (CHOOSE i \in 1..Len(text) :
              /\ text[i] = RBrace
              /\ \A j \in (i + 1)..Len(text) : text[j] # RBrace) - 1
    ELSE -1

\* response_text[start:end]
Slice(text, start, end) == [i \in 1..(end - start) |-> text[start + i]]

\* json.loads succeeds on a span "{ pairs }": anything else between the
\* braces (commentary, another brace) raises JSONDecodeError
JsonLoads(json_str) ==
    /\ Len(json_str) >= 2
    /\ json_str[1] = LBrace
    /\ json_str[Len(json_str)] = RBrace
    /\ \A i \in 2..(Len(json_str) - 1) : json_str[i].t = "pair"

\* result.get(key, default) on the loaded object; the last pair of a
\* repeated key is the one json.loads keeps
Get(json_str, key, default) ==
    IF \E i \in 1..Len(json_str) : json_str[i].t = "pair" /\ json_str[i].k = key
    THEN LET last == CHOOSE i \in 1..Len(json_str) :
                        /\ json_str[i].t = "pair" /\ json_str[i].k = key
                        /\ \A j \in (i + 1)..Len(json_str) :
                               ~(json_str[j].t = "pair" /\ json_str[j].k = key)
         IN  json_str[last].v
    ELSE default

\* '<key>": true' in response_lower
HasTrue(text, key) == \E i \in 1..Len(text) : text[i] = Pair(key, TRUE)

\* "no sponsor" in response_lower
HasNoSponsor(text) == \E i \in 1..Len(text) : text[i] = NoSponsorWords

\* llm_filter.py 91-101: the branch taken when no brace span is found
ParseFallback(text) ==
    Verdict(HasTrue(text, "keyword_match"),
            HasTrue(text, "visa_sponsorship") \/ ~HasNoSponsor(text),
            HasTrue(text, "entry_level"),
            HasTrue(text, "requires_phd"),
            HasTrue(text, "is_internship"),
            "Parsed from text response", FALSE, FALSE, 0)

ParseObjectStrict(json_str) ==
    Verdict(Get(json_str, "keyword_match", FALSE),
            Get(json_str, "visa_sponsorship", FALSE),
            Get(json_str, "entry_level", FALSE),
            Get(json_str, "requires_phd", FALSE),
            Get(json_str, "is_internship", FALSE),
            "", FALSE, FALSE, 0)

\* llm_filter.py 83-90: the fields of the loaded object, permissive defaults
ParseObject(json_str) ==
    Verdict(Get(json_str, "keyword_match", TRUE),
            Get(json_str, "visa_sponsorship", TRUE),
            Get(json_str, "entry_level", TRUE),
            Get(json_str, "requires_phd", FALSE),
            Get(json_str, "is_internship", FALSE),
            "", FALSE, FALSE, 0)

\* llm_filter.py 103-112: except json.JSONDecodeError
ParseError ==
    Verdict(TRUE, TRUE, TRUE, FALSE, FALSE,
            "JSON parse error - defaulting to pass", FALSE, FALSE, 0)

\* _parse_response(response_text), for a text (not None)
_parse_response(text) ==
    LET start == Find(text)
        end == RFind(text) + 1
    IN  IF start >= 0 /\ end > start
        THEN LET json_str == Slice(text, start, end)
             IN  IF JsonLoads(json_str) THEN ParseObject(json_str) ELSE ParseError
        ELSE ParseFallback(text)

(***************************************************************************)
(* The upstream call.  An outcome is what the HTTP exchange of one         *)
(* _call_openrouter call does.                                             *)
(***************************************************************************)
Outcome(kind, text) == [kind |-> kind, text |-> text]

FailureKinds == {"no_api_key", "status_not_200", "client_error", "timeout",
                 "body_not_json", "missing_key", "wrong_type"}

Failures == {Outcome(k, <<>>) : k \in FailureKinds}

\* the exception _call_openrouter leaves with, "none" when it returns:
\* OpenRouterError for a missing key (138-139), a status other than 200
\* (167-170), aiohttp.ClientError (175-177), KeyError/IndexError in the
\* envelope (178-180); asyncio.TimeoutError, the ValueError of
\* response.json() and a TypeError in the envelope pass through
CallRaises(outcome) ==
    CASE outcome.kind \in {"no_api_key", "status_not_200", "client_error",
                           "missing_key"} -> "OpenRouterError"
      [] outcome.kind = "timeout" -> "TimeoutError"
      [] outcome.kind = "body_not_json" -> "ValueError"
      [] outcome.kind = "wrong_type" -> "TypeError"
      [] OTHER -> "none"

SkipsOnlyAbsent(job) == job.desc = "none"

\* not desc or len(desc) < 50, with desc = _safe_str(job.get('description'), '')
Skips(job) == job.desc \in {"none", "short"}

SkippedVerdictPermissive(job) ==
    Verdict(TRUE, TRUE, TRUE, FALSE, FALSE,
            "No description available - skipped", TRUE, FALSE, job.title)

\* llm_filter.py 205-216: the dict returned for a job without a usable
\* description
SkippedVerdict(job) ==
    Verdict(FALSE, FALSE, FALSE, FALSE, FALSE,
            "No description available - skipped", TRUE, FALSE, job.title)

\* the dict of both except clauses of evaluate_job_async
ErrorVerdict(job, exc) ==
    Verdict(TRUE, TRUE, TRUE, FALSE, FALSE,
            IF exc = "OpenRouterError" THEN "API error" ELSE "Error",
            FALSE, TRUE, job.title)

CatchesOpenRouterErrorOnly(exc) == exc = "OpenRouterError"

\* except OpenRouterError ... except Exception: every Exception is caught
Catches(exc) == exc \in {"OpenRouterError", "TimeoutError", "ValueError",
                          "TypeError", "AttributeError"}

\* result = _parse_response(response_text); result['job_title'] = ...
\* response_text None (kind "null_content") raises AttributeError on .find
ParsedVerdict(job, outcome) ==
    [_parse_response(outcome.text) EXCEPT !.job_title = job.title]

\* the exception raised inside the try block of evaluate_job_async
RaisedInside(job, outcome) ==
    IF Skips(job) THEN "none"
    ELSE IF CallRaises(outcome) # "none" THEN CallRaises(outcome)
    ELSE IF outcome.kind = "null_content" THEN "AttributeError"
    ELSE "none"

\* the exception that leaves evaluate_job_async ("none": it returns)
EvaluateRaises(job, outcome) ==
    LET exc == RaisedInside(job, outcome)
    IN  IF exc # "none" /\ ~Catches(exc) THEN exc ELSE "none"

\* evaluate_job_async(job, search_terms, session) when the upstream call,
\* if one is made, has the given outcome
evaluate_job_async(job, outcome) ==
    LET exc == RaisedInside(job, outcome)
    IN  IF Skips(job) THEN SkippedVerdict(job)
        ELSE IF exc = "none" THEN ParsedVerdict(job, outcome)
        ELSE IF Catches(exc) THEN ErrorVerdict(job, exc)
        ELSE NoEval

\* should_include_job(evaluation)
should_include_job(evaluation) ==
    /\ evaluation.keyword_match
    /\ evaluation.visa_sponsorship
    /\ evaluation.entry_level
    /\ ~evaluation.requires_phd
    /\ ~evaluation.is_internship

PassesFiltersNoInternshipCheck(evaluation) ==
    IF evaluation.skipped THEN FALSE
    ELSE IF ~evaluation.keyword_match THEN FALSE
    ELSE IF ~evaluation.visa_sponsorship THEN FALSE
    ELSE IF ~evaluation.entry_level THEN FALSE
    ELSE IF evaluation.requires_phd THEN FALSE
    ELSE TRUE

\* the cascade of filter_jobs_async (llm_filter.py 363-390): TRUE when the
\* loop body reaches filtered.append(job)
PassesFilters(evaluation) ==
    IF evaluation.skipped THEN FALSE
    ELSE IF ~evaluation.keyword_match THEN FALSE
    ELSE IF ~evaluation.visa_sponsorship THEN FALSE
    ELSE IF ~evaluation.entry_level THEN FALSE
    ELSE IF evaluation.requires_phd THEN FALSE
    ELSE IF evaluation.is_internship THEN FALSE
    ELSE TRUE

(***************************************************************************)
(* SpecClassify: one evaluate_job_async call.                              *)
(***************************************************************************)
Descs == {"none", "short", "long"}

AllOutcomes == Failures \cup {Outcome("null_content", <<>>)}
                   \cup {Outcome("ok", t) : t \in Texts \cup WrappedTexts}

NoOutcome == Outcome("none", <<>>)

CIdle ==
    /\ cpc = "idle" /\ cjob = Job(0, 0, "none") /\ cresp = NoOutcome
    /\ cverdict = NoEval /\ craised = "none" /\ ccalls = 0
    /\ coutcome = NoOutcome

CInit ==
    /\ cpc = "start"
    /\ cjob \in {Job(1, 1, d) : d \in Descs}
    /\ cresp = NoOutcome
    /\ cverdict = NoEval
    /\ craised = "none"
    /\ ccalls = 0
    /\ coutcome = NoOutcome

\* llm_filter.py 202-225: the short-description return, else the request
CStart ==
    /\ cpc = "start"
    /\ IF Skips(cjob)
       THEN /\ cverdict' = evaluate_job_async(cjob, NoOutcome)
            /\ cpc' = "done"
            /\ UNCHANGED ccalls
       ELSE /\ cpc' = "calling"
            /\ ccalls' = ccalls + 1
            /\ UNCHANGED cverdict
    /\ UNCHANGED <<cjob, cresp, craised, coutcome>>
    /\ UNCHANGED <<evars, rvars, pvars, tvars>>

\* llm_filter.py 160-183 and the except clauses 232-258: the call raises
\* and the exception is handled, or the call returns the content
CRespond ==
    /\ cpc = "calling"
    /\ \E o \in AllOutcomes :
         /\ coutcome' = o
         /\ IF CallRaises(o) # "none"
            THEN /\ cverdict' = evaluate_job_async(cjob, o)
                 /\ craised' = EvaluateRaises(cjob, o)
                 /\ cpc' = "done"
                 /\ UNCHANGED cresp
            ELSE /\ cresp' = o
                 /\ cpc' = "parsing"
                 /\ UNCHANGED <<cverdict, craised>>
    /\ UNCHANGED <<cjob, ccalls>>
    /\ UNCHANGED <<evars, rvars, pvars, tvars>>

\* llm_filter.py 226-230 (and 246-258 when the content is None)
CParse ==
    /\ cpc = "parsing"
    /\ cverdict' = evaluate_job_async(cjob, cresp)
    /\ craised' = EvaluateRaises(cjob, cresp)
    /\ cpc' = "done"
    /\ UNCHANGED <<cjob, cresp, ccalls, coutcome>>
    /\ UNCHANGED <<evars, rvars, pvars, tvars>>

(***************************************************************************)
(* SpecEngine: one OpenRouterLLMFilter.filter_jobs_async call.             *)
(***************************************************************************)
\* list[lo:hi] with Python's treatment of negative and oversized indices
PyIndex(n, i) == IF i < 0 THEN Max(n + i, 0) ELSE Min(i, n)

PySlice(list, lo, hi) ==
    LET a == PyIndex(Len(list), lo)
        b == PyIndex(Len(list), hi)
    IN  IF a < b THEN SubSeq(list, a + 1, b) ELSE <<>>

PairResultsByCompletion(jobs, taskResults, done) ==
    [i \in 1..Len(jobs) |-> <<jobs[i], taskResults[done[i]]>>]

\* llm_filter.py 344-345: each job is kept beside its own task, and the
\* result is read from that task
PairResults(jobs, taskResults, done) ==
    [i \in 1..Len(jobs) |-> <<jobs[i], taskResults[i]>>]

\* llm_filter.py 355-400: the jobs whose evaluation passes the cascade, in
\* the order of results, each with job['llm_evaluation'] = evaluation
RECURSIVE ProcessResultsPrepending(_)
ProcessResultsPrepending(res) ==
    IF Len(res) = 0 THEN <<>>
    ELSE LET job == res[1][1]
             evaluation == res[1][2]
         IN  IF PassesFilters(evaluation)
             THEN ProcessResultsPrepending(Tail(res))
                      \o <<[job EXCEPT !.llm_evaluation = evaluation]>>
             ELSE ProcessResultsPrepending(Tail(res))

RECURSIVE ProcessResults(_)
ProcessResults(res) ==
    IF Len(res) = 0 THEN <<>>
    ELSE LET job == res[1][1]
             evaluation == res[1][2]
         IN  IF PassesFilters(evaluation)
             THEN <<[job EXCEPT !.llm_evaluation = evaluation]>>
                      \o ProcessResults(Tail(res))
             ELSE ProcessResults(Tail(res))

AttachVerdictsToAll(jobs, res) ==
    [i \in 1..Len(jobs) |->
        IF i <= Len(res)
        THEN [jobs[i] EXCEPT !.llm_evaluation = res[i][2]]
        ELSE jobs[i]]

\* llm_filter.py 363-390: job['llm_evaluation'] = evaluation is the only
\* write to a job, made after the cascade let the job through; results[i]
\* holds the i-th dict of the input list (342-345)
AttachVerdicts(jobs, res) ==
    [i \in 1..Len(jobs) |->
        IF i <= Len(res) /\ PassesFilters(res[i][2])
        THEN [jobs[i] EXCEPT !.llm_evaluation = res[i][2]]
        ELSE jobs[i]]

\* responses the judge gives in the engine and in the run
AcceptText == <<LBrace, RBrace>>
RejectText(k) == <<LBrace, Pair(k, k \in {"requires_phd", "is_internship"}), RBrace>>

EngineOutcomes ==
    {Outcome("ok", AcceptText), Outcome("timeout", <<>>),
     Outcome("ok", <<Words>>)}
        \cup {Outcome("ok", RejectText(k)) : k \in Keys}

JobLists(n) ==
    {[i \in 1..n |-> Job(i, i, d[i])] : d \in [1..n -> {"short", "long"}]}

EngineInputs == UNION {JobLists(n) : n \in 0..MaxJobs}

Concurrencies == (-1)..MaxConcurrency

\* model identifiers: the default of OPENROUTER_MODEL and a free-tier one
Models == {"liquid/lfm-2.5-1.2b-instruct", "Vendor/Model:FREE"}

\* ":free" in model.lower()  (llm_filter.py 286)
IsFreeModel(m) == m = "Vendor/Model:FREE"

\* the default of the parameter rate_limit_delay (llm_filter.py 275)
DefaultRateLimitDelay == 60

\* llm_filter.py 284-292: self.rate_limit_delay = rate_limit_delay, for a
\* free model as for any other (is_free_model only selects a message)
RateLimitDelay(m, delay) == delay

OpensSessionAlways(total) == TRUE

\* llm_filter.py 329-340: the session is opened after the return for an
\* empty list
OpensSession(total) == total # 0

EIdle ==
    /\ epc = "idle" /\ jobs_list = <<>> /\ concurrency = 0 /\ batch = <<>>
    /\ model = "" /\ rate_limit_delay = 0 /\ sessions = 0 /\ dicts = <<>>
    /\ task = <<>> /\ taskResult = <<>> /\ order = <<>> /\ results = <<>>
    /\ filtered = <<>> /\ sleeps = 0

EInit ==
    /\ epc = "start"
    /\ jobs_list \in EngineInputs
    /\ dicts = jobs_list
    /\ model \in Models
    /\ rate_limit_delay = RateLimitDelay(model, DefaultRateLimitDelay)
    /\ concurrency \in Concurrencies
    /\ sessions = 0
    /\ batch = <<>> /\ task = <<>> /\ taskResult = <<>> /\ order = <<>>
    /\ results = <<>> /\ filtered = <<>> /\ sleeps = 0

\* llm_filter.py 329-344: return [] for no job; else the slice
\* jobs_list[idx: idx + self.concurrency] with idx = 0 and one task per job
EBegin ==
    /\ epc = "start"
    /\ IF Len(jobs_list) = 0
       THEN /\ epc' = "returned"
            /\ UNCHANGED <<batch, task, taskResult>>
       ELSE /\ batch' = PySlice(jobs_list, 0, 0 + concurrency)
            /\ task' = [i \in 1..Len(batch') |-> "created"]
            /\ taskResult' = [i \in 1..Len(batch') |-> NoEval]
            /\ epc' = "batch"
    /\ sessions' = IF OpensSession(Len(jobs_list)) THEN sessions + 1 ELSE sessions
    /\ UNCHANGED <<jobs_list, dicts, model, rate_limit_delay, concurrency,
                   order, results, filtered, sleeps>>
    /\ UNCHANGED <<cvars, rvars, pvars, tvars>>

\* a task runs to its first await: tasks start in creation order; a job
\* with a short description returns at once (llm_filter.py 204-216)
EStartTask(i) ==
    /\ epc = "batch"
    /\ i \in 1..Len(batch)
    /\ task[i] = "created"
    /\ \A j \in 1..(i - 1) : task[j] # "created"
    /\ IF Skips(batch[i])
       THEN /\ task' = [task EXCEPT ![i] = "done"]
            /\ taskResult' = [taskResult EXCEPT
                                 ![i] = evaluate_job_async(batch[i], NoOutcome)]
            /\ order' = Append(order, i)
       ELSE /\ task' = [task EXCEPT ![i] = "inflight"]
            /\ UNCHANGED <<taskResult, order>>
    /\ UNCHANGED <<epc, jobs_list, concurrency, batch, results, filtered, sleeps>>
    /\ UNCHANGED <<dicts, model, rate_limit_delay, sessions>>
    /\ UNCHANGED <<cvars, rvars, pvars, tvars>>

\* the upstream call of task i resolves and its coroutine returns
EComplete(i) ==
    /\ epc = "batch"
    /\ i \in 1..Len(batch)
    /\ task[i] = "inflight"
    /\ \E o \in EngineOutcomes :
         taskResult' = [taskResult EXCEPT ![i] = evaluate_job_async(batch[i], o)]
    /\ task' = [task EXCEPT ![i] = "done"]
    /\ order' = Append(order, i)
    /\ UNCHANGED <<epc, jobs_list, concurrency, batch, results, filtered, sleeps>>
    /\ UNCHANGED <<dicts, model, rate_limit_delay, sessions>>
    /\ UNCHANGED <<cvars, rvars, pvars, tvars>>

EGatherFirstCompleted ==
    /\ epc = "batch"
    /\ \E i \in 1..Len(batch) : task[i] = "done"
    /\ results' = PairResults(batch, taskResult, order)
    /\ sleeps' = IF 0 + concurrency < Len(batch) THEN sleeps + 1 ELSE sleeps
    /\ epc' = "gathered"
    /\ UNCHANGED <<jobs_list, concurrency, batch, task, taskResult, order, filtered>>
    /\ UNCHANGED <<dicts, model, rate_limit_delay, sessions>>
    /\ UNCHANGED <<cvars, rvars, pvars, tvars>>

\* llm_filter.py 343-352: the TaskGroup exits when every task is done;
\* results, then idx += self.concurrency and the sleep if idx < len(jobs)
EGather ==
    /\ epc = "batch"
    /\ \A i \in 1..Len(batch) : task[i] = "done"
    /\ results' = PairResults(batch, taskResult, order)
    /\ sleeps' = IF 0 + concurrency < Len(batch) THEN sleeps + 1 ELSE sleeps
    /\ epc' = "gathered"
    /\ UNCHANGED <<jobs_list, concurrency, batch, task, taskResult, order, filtered>>
    /\ UNCHANGED <<dicts, model, rate_limit_delay, sessions>>
    /\ UNCHANGED <<cvars, rvars, pvars, tvars>>

\* llm_filter.py 354-400
EProcess ==
    /\ epc = "gathered"
    /\ filtered' = ProcessResults(results)
    /\ dicts' = AttachVerdicts(dicts, results)
    /\ epc' = "returned"
    /\ UNCHANGED <<jobs_list, concurrency, batch, task, taskResult, order,
                   results, sleeps>>
    /\ UNCHANGED <<model, rate_limit_delay, sessions>>
    /\ UNCHANGED <<cvars, rvars, pvars, tvars>>

(***************************************************************************)
(* Recipients and search terms.  Norm is term.lower().strip().             *)
(***************************************************************************)
Norm(term) ==
    CASE term \in {"t1", " T1 ", "T1"} -> "t1"
      [] term \in {"", " "} -> ""
      [] term \in {"t2", "T2"} -> "t2"
      [] OTHER -> term

\* term.strip()
Strip(term) ==
    CASE term = " T1 " -> "T1"
      [] term = " " -> ""
      [] OTHER -> term

Recipient(email, needs, terms) ==
    [email |-> email, needs_sponsorship |-> needs, search_terms |-> terms]

Range(seq) == {seq[i] : i \in 1..Len(seq)}

(***************************************************************************)
(* EmailSender.filter_jobs_for_recipient.  jobs_by_term is a dict: here a  *)
(* sequence of <<term, jobs>> in the dict's iteration (insertion) order.   *)
(***************************************************************************)
RECURSIVE CollectJobsExact(_, _)
CollectJobsExact(map, recipient) ==
    IF Len(map) = 0 THEN <<>>
    ELSE (IF map[1][1] \in Range(recipient.search_terms)
          THEN map[1][2] ELSE <<>>)
             \o CollectJobsExact(Tail(map), recipient)

\* email_sender.py 56-61
RECURSIVE CollectJobs(_, _)
CollectJobs(map, recipient) ==
    IF Len(map) = 0 THEN <<>>
    ELSE LET term == map[1][1]
             jobs == map[1][2]
             recipient_terms_lower ==
                 {Norm(t) : t \in Range(recipient.search_terms)}
         IN  (IF Norm(term) \in recipient_terms_lower THEN jobs ELSE <<>>)
                 \o CollectJobs(Tail(map), recipient)

RECURSIVE KeepAll(_, _)
KeepAll(jobs, seen_urls) ==
    IF Len(jobs) = 0 THEN <<>>
    ELSE IF jobs[1].job_url # 0
         THEN <<jobs[1]>> \o KeepAll(Tail(jobs), seen_urls)
         ELSE KeepAll(Tail(jobs), seen_urls)

RECURSIVE UniqueByUrlOrMissing(_, _)
UniqueByUrlOrMissing(jobs, seen_urls) ==
    IF Len(jobs) = 0 THEN <<>>
    ELSE LET url == jobs[1].job_url
         IN  IF url \notin seen_urls
             THEN <<jobs[1]>>
                      \o UniqueByUrlOrMissing(Tail(jobs), seen_urls \cup {url})
             ELSE UniqueByUrlOrMissing(Tail(jobs), seen_urls)

\* email_sender.py 63-70 (and main.py 305-313): the jobs with a url not
\* seen before; a job whose url is missing or empty (0) is dropped
RECURSIVE UniqueByUrl(_, _)
UniqueByUrl(jobs, seen_urls) ==
    IF Len(jobs) = 0 THEN <<>>
    ELSE LET url == jobs[1].job_url
         IN  IF url # 0 /\ url \notin seen_urls
             THEN <<jobs[1]>> \o UniqueByUrl(Tail(jobs), seen_urls \cup {url})
             ELSE UniqueByUrl(Tail(jobs), seen_urls)

VisaFlagDefaultTrue(j) ==
    IF j.llm_evaluation = NoEval THEN TRUE
    ELSE j.llm_evaluation.visa_sponsorship

\* j.get('llm_evaluation', {}).get('visa_sponsorship', False)
VisaFlag(j) ==
    IF j.llm_evaluation = NoEval THEN FALSE
    ELSE j.llm_evaluation.visa_sponsorship

SponsorshipGateOff(unique_jobs, recipient) == unique_jobs

\* email_sender.py 72-77
SponsorshipGate(unique_jobs, recipient) ==
    IF recipient.needs_sponsorship
    THEN SelectSeq(unique_jobs, VisaFlag)
    ELSE unique_jobs

filter_jobs_for_recipient(map, recipient) ==
    SponsorshipGate(UniqueByUrl(CollectJobs(map, recipient), {}), recipient)

(***************************************************************************)
(* SpecRouter: filter_jobs_for_recipient on every small input.             *)
(***************************************************************************)
MaxRouterJobs == 2

VisaVerdict(vs) == Verdict(TRUE, vs, TRUE, FALSE, FALSE, "", FALSE, FALSE, 0)

RouterUrls == {0, 1, 2}
RouterEvals == {NoEval, VisaVerdict(TRUE), VisaVerdict(FALSE)}

\* the job at position i of the list filed under the n-th term
RouterJob(n, i, url, ev) ==
    [Job(10 * n + i, url, "long") EXCEPT !.llm_evaluation = ev]

RouterLists(n, max) ==
    UNION {{[i \in 1..len |-> RouterJob(n, i, u[i], e[i])] :
               u \in [1..len -> RouterUrls], e \in [1..len -> RouterEvals]} :
           len \in 0..max}

RouterMaps ==
    {<<<<"t1", l1>>, <<"T2", l2>>>> :
        l1 \in RouterLists(1, MaxRouterJobs), l2 \in RouterLists(2, 1)}

RouterRecipients ==
    {Recipient(1, needs, terms) :
        needs \in BOOLEAN, terms \in {<<" T1 ", "t2">>, <<"t1">>, <<"t3">>}}

RIdle ==
    /\ rpc = "idle" /\ rmap = <<>> /\ rrecipient = Recipient(0, FALSE, <<>>)
    /\ rout = <<>>

RInit ==
    /\ rpc = "input"
    /\ rmap \in RouterMaps
    /\ rrecipient \in RouterRecipients
    /\ rout = <<>>

Route ==
    /\ rpc = "input"
    /\ rout' = filter_jobs_for_recipient(rmap, rrecipient)
    /\ rpc' = "routed"
    /\ UNCHANGED <<rmap, rrecipient>>
    /\ UNCHANGED <<cvars, evars, pvars, tvars>>

(***************************************************************************)
(* JobHunterSentinel.run, one run after another on the same Dedup Store.   *)
(***************************************************************************)
MaxScrape == 2
MaxRuns == 2

\* OpenRouterLLMFilter() at main.py 78 takes the default concurrency
DefaultConcurrency == 20

\* the RECIPIENTS configuration of the runs
Recipients ==
    <<Recipient(1, FALSE, <<"t1">>), Recipient(2, TRUE, <<" T1 ", "t2">>)>>

RecipientIds == 1..Len(Recipients)

RECURSIVE Flatten(_)
Flatten(recipients) ==
    IF Len(recipients) = 0 THEN <<>>
    ELSE recipients[1].search_terms \o Flatten(Tail(recipients))

RECURSIVE UniqueTermsExact(_, _)
UniqueTermsExact(terms, seen) ==
    IF Len(terms) = 0 THEN <<>>
    ELSE LET term == Strip(terms[1])
         IN  IF term # "" /\ term \notin seen
             THEN <<term>> \o UniqueTermsExact(Tail(terms), seen \cup {term})
             ELSE UniqueTermsExact(Tail(terms), seen)

RECURSIVE UniqueTerms(_, _)
UniqueTerms(terms, seen) ==
    IF Len(terms) = 0 THEN <<>>
    ELSE LET term_lower == Norm(terms[1])
         IN  IF term_lower # "" /\ term_lower \notin seen
             THEN <<Strip(terms[1])>>
                      \o UniqueTerms(Tail(terms), seen \cup {term_lower})
             ELSE UniqueTerms(Tail(terms), seen)

\* config.py 94-114
get_all_search_terms(recipients) == UniqueTerms(Flatten(recipients), {})

all_search_terms == get_all_search_terms(Recipients)

(***************************************************************************)
(* SpecTerms: get_all_search_terms on every small RECIPIENTS list.         *)
(***************************************************************************)
MaxTerms == 2

\* spellings of search terms in a RECIPIENTS entry, blank ones included
TermPool == {"t1", " T1 ", "T1", "t2", "", " "}

TermLists == UNION {[1..n -> TermPool] : n \in 0..MaxTerms}

TermRecipients ==
    {<<>>}
        \cup {<<Recipient(1, FALSE, a)>> : a \in TermLists}
        \cup {<<Recipient(1, FALSE, a), Recipient(2, TRUE, b)>> :
                  a \in TermLists, b \in TermLists}

TIdle == tpc = "idle" /\ trecipients = <<>> /\ tterms = <<>>

TInit == tpc = "input" /\ trecipients \in TermRecipients /\ tterms = <<>>

\* main.py 65: self.all_search_terms = get_all_search_terms(self.recipients)
TCollect ==
    /\ tpc = "input"
    /\ tterms' = get_all_search_terms(trecipients)
    /\ tpc' = "collected"
    /\ UNCHANGED trecipients
    /\ UNCHANGED <<cvars, evars, rvars, pvars>>

\* JobDatabase.filter_new_jobs: the postings whose id is not in the store,
\* in input order
filter_new_jobs(jobs, db) == SelectSeq(jobs, LAMBDA j : j.job_url \notin db)

\* JobDatabase.mark_as_sent: committing an id already present changes nothing
mark_as_sent(db, url) == db \cup {url}

\* the signature of DataManager.save_jobs (data_manager.py 41-45): besides
\* jobs_data it takes the keyword timestamp
SaveJobsParams == {"timestamp"}

\* save_jobs(jobs, timestamp=start_time, prefix=...) at main.py 261 and 285
\* raises TypeError unless the callee takes both keywords
SaveJobsRaises(params) == ~({"timestamp", "prefix"} \subseteq params)

JobsToEvaluateUnfiltered(scraped, new) == scraped

\* main.py 269-271: the list handed to filter_jobs_parallel
JobsToEvaluate(scraped, new) == new

\* filter_jobs_parallel -> filter_jobs -> filter_jobs_async, the call of
\* task i having the outcome outs[i]
filter_jobs_async(jobs, c, outs) ==
    IF Len(jobs) = 0 THEN <<>>
    ELSE LET b == PySlice(jobs, 0, 0 + c)
             tr == [i \in 1..Len(b) |-> evaluate_job_async(b[i], outs[i])]
         IN  ProcessResults(PairResults(b, tr, [i \in 1..Len(b) |-> i]))

\* JobHunterSentinel.filter_jobs (main.py 168-201), the rule-based
\* fallback: the jobs, unchanged, whose title and description pass the
\* keyword rules; keep[i] is the answer of the rules for the i-th job
filter_jobs(jobs, keep) ==
    LET pos == SelectSeq([i \in 1..Len(jobs) |-> i], LAMBDA i : keep[i])
    IN  [k \in 1..Len(pos) |-> jobs[pos[k]]]

RunOutcomes ==
    {Outcome("ok", AcceptText), Outcome("ok", RejectText("keyword_match")),
     Outcome("timeout", <<>>)}

ScrapeUrls == {1, 2}

\* the postings of a board without a job_url, beside one with a url
ScrapeUrlsMissing == {0, 1}

\* the lists scrape_multiple_queries can return from the boards' postings
ScrapeLists(urls) ==
    UNION {{[i \in 1..n |-> Job(i, u[i], d[i])] :
               u \in [1..n -> urls], d \in [1..n -> {"short", "long"}]} :
           n \in 0..MaxScrape}

Urls(jobs) == {jobs[i].job_url : i \in 1..Len(jobs)}
UrlSeq(jobs) == [i \in 1..Len(jobs) |-> jobs[i].job_url]

RECURSIVE AllJobs(_)
AllJobs(map) == IF Len(map) = 0 THEN <<>> ELSE map[1][2] \o AllJobs(Tail(map))

NewHist(db) ==
    [start_store |-> db,
     scraped |-> {},
     evaluated |-> {},
     routed |-> [r \in RecipientIds |-> <<>>],
     sends |-> [r \in RecipientIds |-> "none"],
     marked |-> <<>>,
     notices |-> [r \in RecipientIds |-> "none"],
     stopped_at |-> "none"]

\* the environment variables read at start-up: a usable recipient in
\* RECIPIENTS or RECIPIENT_EMAIL, RESEND_API_KEY, OPENROUTER_API_KEY and
\* USE_LLM_FILTER
Env(recipients, resend_key, openrouter_key, use_llm_filter) ==
    [recipients |-> recipients, resend_key |-> resend_key,
     openrouter_key |-> openrouter_key, use_llm_filter |-> use_llm_filter]

Envs == {Env(r, k, o, u) : r, k, o, u \in BOOLEAN}

StartupRaisesWithoutRecipientsOnly(e) == ~e.recipients

\* JobHunterSentinel.__init__ (main.py 57-78): EmailSender() raises
\* ValueError without RESEND_API_KEY (email_sender.py 27-30),
\* parse_recipients() without a recipient (config.py 36-79), and
\* OpenRouterLLMFilter() without OPENROUTER_API_KEY when the LLM filter is
\* enabled (llm_filter.py 294-295)
StartupRaises(e) ==
    \/ ~e.resend_key
    \/ ~e.recipients
    \/ (e.use_llm_filter /\ ~e.openrouter_key)

\* the status the process ends with: 0 when run() returns, sys.exit(0) for
\* KeyboardInterrupt (main.py 345-347), sys.exit(1) for an Exception
\* (main.py 91-93, 348-352)
ExitCode(p, f) ==
    IF p = "Done" THEN 0
    ELSE IF f = "interrupt" THEN 0
    ELSE 1

RunStart(db, n) ==
    /\ pc = "init"
    /\ store = db
    /\ run = n
    /\ term_idx = 1
    /\ jobs_df = <<>>
    /\ new_jobs = <<>>
    /\ jobs_by_term = <<>>
    /\ email_results = [r \in RecipientIds |-> "none"]
    /\ fault = "none"
    /\ hist = NewHist(db)

PIdle ==
    /\ pc = "idle" /\ env = Env(FALSE, FALSE, FALSE, FALSE) /\ board = {}
    /\ dmParams = {} /\ store = {} /\ run = 0 /\ term_idx = 0
    /\ jobs_df = <<>> /\ new_jobs = <<>> /\ jobs_by_term = <<>>
    /\ email_results = <<>> /\ fault = "none" /\ hist = NewHist({})

\* the run of the source: DataManager as in data_manager.py; the store is
\* the one found at start-up
PInit ==
    /\ env \in Envs
    /\ board = ScrapeUrls
    /\ dmParams = SaveJobsParams
    /\ \E db \in SUBSET ScrapeUrls : RunStart(db, 1)

\* the run with a DataManager that takes the keywords run() passes
PInitPipeline ==
    /\ env = Env(TRUE, TRUE, TRUE, TRUE)
    /\ board = ScrapeUrls
    /\ dmParams = SaveJobsParams \cup {"prefix"}
    /\ RunStart({}, 1)

\* the same run with USE_LLM_FILTER true or false
PInitFilterModes ==
    /\ env \in {Env(TRUE, TRUE, TRUE, u) : u \in BOOLEAN}
    /\ board = ScrapeUrls
    /\ dmParams = SaveJobsParams \cup {"prefix"}
    /\ RunStart({}, 1)

\* the same run on boards that hold a posting without a job_url
PInitNoUrl ==
    /\ env = Env(TRUE, TRUE, TRUE, TRUE)
    /\ board = ScrapeUrlsMissing
    /\ dmParams = SaveJobsParams \cup {"prefix"}
    /\ RunStart({}, 1)

LoopExhaustedEarly(idx) == idx > 1

\* main.py 219: the for loop over self.all_search_terms has ended
LoopExhausted(idx) == idx > Len(all_search_terms)

NextTermSkipEmpty(jobs) ==
    /\ jobs_by_term' = IF Len(jobs) = 0 THEN jobs_by_term
                       ELSE Append(jobs_by_term,
                                   <<all_search_terms[term_idx], jobs>>)
    /\ term_idx' = term_idx + 1
    /\ jobs_df' = <<>>
    /\ new_jobs' = <<>>
    /\ pc' = "loop"

\* jobs_by_term[search_term] = jobs; continue / end of the loop body.  The
\* loop's locals are dead until the next iteration assigns them.
NextTerm(jobs) ==
    /\ jobs_by_term' = Append(jobs_by_term, <<all_search_terms[term_idx], jobs>>)
    /\ term_idx' = term_idx + 1
    /\ jobs_df' = <<>>
    /\ new_jobs' = <<>>
    /\ pc' = "loop"

\* sys.exit from an except clause of run(): the process ends and the
\* locals of run() with it; `at` is the step the exception was raised in
Exit(cause, at) ==
    /\ pc' = "Aborted"
    /\ fault' = cause
    /\ jobs_df' = <<>>
    /\ new_jobs' = <<>>
    /\ jobs_by_term' = <<>>
    /\ email_results' = [r \in RecipientIds |-> "none"]
    /\ hist' = [NewHist(hist.start_store) EXCEPT !.stopped_at = at]
    /\ UNCHANGED term_idx

\* main.py 387-391 and 53-93: JobHunterSentinel(); a ValueError of a
\* constructor is caught in __init__, sys.exit(1)
PStartup ==
    /\ pc = "init"
    /\ IF StartupRaises(env)
       THEN /\ pc' = "Aborted"
            /\ fault' = "config"
       ELSE /\ pc' = "loop"
            /\ UNCHANGED fault
    /\ UNCHANGED <<env, board, dmParams, store, run, term_idx, jobs_df, new_jobs,
                   jobs_by_term, email_results, hist>>
    /\ UNCHANGED <<cvars, evars, rvars, tvars>>

\* main.py 345-347: KeyboardInterrupt raised while run() scrapes, checks,
\* saves, evaluates or sends the empty notice; sys.exit(0)
PInterrupt ==
    /\ pc \in {"loop", "dedup", "save_all", "evaluate"}
    /\ Exit("interrupt", pc)
    /\ UNCHANGED <<env, board, dmParams, store, run>>
    /\ UNCHANGED <<cvars, evars, rvars, tvars>>

\* main.py 219-241: scrape the next term
PScrape ==
    /\ pc = "loop"
    /\ ~LoopExhausted(term_idx)
    /\ \E df \in ScrapeLists(board) :
         IF Len(df) = 0
         THEN NextTerm(<<>>)
         ELSE /\ jobs_df' = df
              /\ pc' = "dedup"
              /\ UNCHANGED <<jobs_by_term, term_idx, new_jobs>>
    /\ hist' = [hist EXCEPT !.scraped = @ \cup Urls(jobs_df')]
    /\ UNCHANGED <<env, board, dmParams, store, run, email_results, fault>>
    /\ UNCHANGED <<cvars, evars, rvars, tvars>>

\* main.py 243-256: the dedup check
PDedup ==
    /\ pc = "dedup"
    /\ LET new == filter_new_jobs(jobs_df, store)
       IN  IF Len(new) = 0
           THEN NextTerm(<<>>)
           ELSE /\ new_jobs' = new
                /\ pc' = "save_all"
                /\ UNCHANGED <<jobs_by_term, term_idx, jobs_df>>
    /\ UNCHANGED <<env, board, dmParams, store, run, email_results, fault, hist>>
    /\ UNCHANGED <<cvars, evars, rvars, tvars>>

\* the lookup raises (store unreachable): main.py 348-352, sys.exit(1)
PDedupFails ==
    /\ pc = "dedup"
    /\ fault' = "dedup_store"
    /\ pc' = "Aborted"
    /\ UNCHANGED <<env, board, dmParams, store, run, term_idx, jobs_df, new_jobs,
                   jobs_by_term, email_results, hist>>
    /\ UNCHANGED <<cvars, evars, rvars, tvars>>

\* main.py 258-261: save_jobs(new_jobs, timestamp=..., prefix=...); a
\* TypeError is caught at 348-352, sys.exit(1)
PSaveAll ==
    /\ pc = "save_all"
    /\ pc' = IF SaveJobsRaises(dmParams) THEN "Aborted" ELSE "evaluate"
    /\ UNCHANGED <<env, board, dmParams, store, run, term_idx, jobs_df, new_jobs,
                   jobs_by_term, email_results, fault, hist>>
    /\ UNCHANGED <<cvars, evars, rvars, tvars>>

\* main.py 315-325: mark_as_sent for each job of the list, in order
RECURSIVE MarkAll(_, _)
MarkAll(db, jobs) ==
    IF Len(jobs) = 0 THEN db
    ELSE MarkAll(mark_as_sent(db, jobs[1].job_url), Tail(jobs))

StoreAfterTermMarked(db, filtered_jobs) == MarkAll(db, filtered_jobs)

\* main.py 276-285: the loop body files the filtered jobs under the term
\* and saves them; it makes no call on self.database
StoreAfterTerm(db, filtered_jobs) == db

\* main.py 263-285: the LLM filter on the new jobs; the filtered jobs are
\* filed under the term, and saved when there are any
PEvaluate ==
    /\ pc = "evaluate"
    /\ LET input == JobsToEvaluate(jobs_df, new_jobs)
           n == Len(PySlice(input, 0, 0 + DefaultConcurrency))
       IN  \E filtered_jobs \in
               IF env.use_llm_filter
               THEN {filter_jobs_async(input, DefaultConcurrency, outs) :
                        outs \in [1..n -> RunOutcomes]}
               ELSE {filter_jobs(input, keep) :
                        keep \in [1..Len(input) -> BOOLEAN]} :
                 /\ hist' = [hist EXCEPT !.evaluated =
                        IF env.use_llm_filter THEN @ \cup Urls(input) ELSE @]
                 /\ store' = StoreAfterTerm(store, filtered_jobs)
                 /\ IF Len(filtered_jobs) > 0 /\ SaveJobsRaises(dmParams)
                    THEN /\ jobs_by_term' = Append(jobs_by_term,
                                 <<all_search_terms[term_idx], filtered_jobs>>)
                         /\ pc' = "Aborted"
                         /\ UNCHANGED <<term_idx, jobs_df, new_jobs>>
                    ELSE NextTerm(filtered_jobs)
    /\ UNCHANGED <<env, board, dmParams, run, email_results, fault>>
    /\ UNCHANGED <<cvars, evars, rvars, tvars>>

\* email_sender.py 341-358: one send per recipient, its failure caught
send_empty_notification(sent) ==
    [r \in RecipientIds |-> IF sent[r] THEN "ok" ELSE "failed"]

\* main.py 287-294: nothing to send; send_empty_notification tries every
\* recipient and the run returns
PSendEmpty ==
    /\ pc = "loop"
    /\ LoopExhausted(term_idx)
    /\ Len(AllJobs(jobs_by_term)) = 0
    /\ \E sent \in [RecipientIds -> BOOLEAN] :
         hist' = [hist EXCEPT !.notices = send_empty_notification(sent)]
    /\ pc' = "Done"
    /\ UNCHANGED <<env, board, dmParams, store, run, term_idx, jobs_df, new_jobs,
                   jobs_by_term, email_results, fault>>
    /\ UNCHANGED <<cvars, evars, rvars, tvars>>

\* email_sender.py 271-306: one entry per recipient; True without a send
\* when the recipient's list is empty, else the outcome of the send
DigestResult(map, r, sent) ==
    IF Len(filter_jobs_for_recipient(map, Recipients[r])) = 0 THEN "ok"
    ELSE IF sent THEN "ok" ELSE "failed"

\* email_sender.py 297: the resend.Emails.send calls made, with their
\* outcome; none for a recipient whose list is empty (276-279)
DigestSends(map, sent) ==
    [r \in RecipientIds |->
        IF Len(filter_jobs_for_recipient(map, Recipients[r])) = 0 THEN "none"
        ELSE IF sent[r] THEN "ok" ELSE "failed"]

send_daily_digest_until_failure(map, sent) ==
    [r \in RecipientIds |->
        IF \E q \in 1..(r - 1) : DigestResult(map, q, sent[q]) = "failed"
        THEN "none"
        ELSE DigestResult(map, r, sent[r])]

\* email_sender.py 271-306: the loop over the recipients; the except
\* clause is inside the loop body
send_daily_digest(map, sent) ==
    [r \in RecipientIds |-> DigestResult(map, r, sent[r])]

\* main.py 296-299: send_daily_digest(jobs_by_term)
PDispatch ==
    /\ pc = "loop"
    /\ LoopExhausted(term_idx)
    /\ Len(AllJobs(jobs_by_term)) # 0
    /\ \E sent \in [RecipientIds -> BOOLEAN] :
         /\ email_results' = send_daily_digest(jobs_by_term, sent)
         /\ hist' = [hist EXCEPT
                !.routed = [r \in RecipientIds |->
                    UrlSeq(filter_jobs_for_recipient(jobs_by_term, Recipients[r]))],
                !.sends = DigestSends(jobs_by_term, sent)]
    /\ pc' = "commit"
    /\ UNCHANGED <<env, board, dmParams, store, run, term_idx, jobs_df, new_jobs,
                   jobs_by_term, fault>>
    /\ UNCHANGED <<cvars, evars, rvars, tvars>>

CommitListAll(map, sendResults) == SelectSeq(AllJobs(map), LAMBDA j : j.job_url # 0)

DigestCatchesAll(exc) == TRUE

\* email_sender.py 302: except Exception; KeyboardInterrupt is not an
\* Exception and leaves send_daily_digest
DigestCatches(exc) == exc # "KeyboardInterrupt"

\* main.py 296-299 and 345-347: KeyboardInterrupt raised in the send to
\* recipient r; the sends before it had the outcomes `sent`
PDispatchInterrupted ==
    /\ pc = "loop"
    /\ LoopExhausted(term_idx)
    /\ Len(AllJobs(jobs_by_term)) # 0
    /\ \E r \in RecipientIds, sent \in [RecipientIds -> BOOLEAN] :
         IF DigestCatches("KeyboardInterrupt")
         THEN /\ email_results' = send_daily_digest(jobs_by_term,
                                       [sent EXCEPT ![r] = FALSE])
              /\ hist' = [hist EXCEPT
                     !.routed = [q \in RecipientIds |->
                         UrlSeq(filter_jobs_for_recipient(jobs_by_term,
                                                          Recipients[q]))],
                     !.sends = DigestSends(jobs_by_term,
                                           [sent EXCEPT ![r] = FALSE]),
                     !.stopped_at = "dispatch"]
              /\ pc' = "commit"
              /\ UNCHANGED <<term_idx, jobs_df, new_jobs, jobs_by_term, fault>>
         ELSE Exit("interrupt", "dispatch")
    /\ UNCHANGED <<env, board, dmParams, store, run>>
    /\ UNCHANGED <<cvars, evars, rvars, tvars>>

\* main.py 305-313: all_unique_jobs, whatever email_results holds
CommitList(map, sendResults) == UniqueByUrl(AllJobs(map), {})

PCommitDelivered ==
    /\ pc = "commit"
    /\ LET all_unique_jobs ==
               SelectSeq(CommitList(jobs_by_term, email_results),
                         LAMBDA j : \E r \in RecipientIds :
                                       /\ email_results[r] = "ok"
                                       /\ j.job_url \in Range(hist.routed[r]))
       IN  /\ store' = MarkAll(store, all_unique_jobs)
           /\ hist' = [hist EXCEPT !.marked = UrlSeq(all_unique_jobs)]
    /\ pc' = "Done"
    /\ UNCHANGED <<env, board, dmParams, run, term_idx, jobs_df, new_jobs,
                   jobs_by_term, email_results, fault>>
    /\ UNCHANGED <<cvars, evars, rvars, tvars>>

\* main.py 301-343: mark every unique job as sent; statistics, cleanup and
\* the summary end the run
PCommit ==
    /\ pc = "commit"
    /\ LET all_unique_jobs == CommitList(jobs_by_term, email_results)
       IN  /\ store' = MarkAll(store, all_unique_jobs)
           /\ hist' = [hist EXCEPT !.marked = UrlSeq(all_unique_jobs)]
    /\ pc' = "Done"
    /\ UNCHANGED <<env, board, dmParams, run, term_idx, jobs_df, new_jobs, jobs_by_term,
                   email_results, fault>>
    /\ UNCHANGED <<cvars, evars, rvars, tvars>>

\* main.py 315-325 and 345-352: the k-th mark_as_sent raises (the store
\* fails, or KeyboardInterrupt); the records written by the calls before it
\* stay in the store
PCommitStops ==
    /\ pc = "commit"
    /\ LET all_unique_jobs == CommitList(jobs_by_term, email_results)
       IN  \E k \in 1..Len(all_unique_jobs) :
             store' = MarkAll(store, SubSeq(all_unique_jobs, 1, k - 1))
    /\ \E cause \in {"dedup_store", "interrupt"} : Exit(cause, "commit")
    /\ UNCHANGED <<env, board, dmParams, run>>
    /\ UNCHANGED <<cvars, evars, rvars, tvars>>

\* the next scheduled run: a new process on the same store
PNextRun ==
    /\ pc \in {"Done", "Aborted"}
    /\ run < MaxRuns
    /\ pc' = "init"
    /\ run' = run + 1
    /\ term_idx' = 1
    /\ jobs_df' = <<>>
    /\ new_jobs' = <<>>
    /\ jobs_by_term' = <<>>
    /\ email_results' = [r \in RecipientIds |-> "none"]
    /\ fault' = "none"
    /\ hist' = NewHist(store)
    /\ UNCHANGED <<env, board, dmParams, store>>
    /\ UNCHANGED <<cvars, evars, rvars, tvars>>

(***************************************************************************)
(* Specifications.                                                         *)
(***************************************************************************)
InitClassify == CInit /\ EIdle /\ RIdle /\ PIdle /\ TIdle
NextClassify == CStart \/ CRespond \/ CParse
SpecClassify == InitClassify /\ [][NextClassify]_vars

InitEngine == CIdle /\ EInit /\ RIdle /\ PIdle /\ TIdle
NextEngine ==
    \/ EBegin
    \/ \E i \in 1..MaxJobs : EStartTask(i)
    \/ \E i \in 1..MaxJobs : EComplete(i)
    \/ EGather
    \/ EProcess
SpecEngine == InitEngine /\ [][NextEngine]_vars

\* The engine under its scheduling: the event loop runs every coroutine
\* that is ready (asyncio.run, llm_filter.py 417), and every upstream call
\* answers, fails or reaches ClientTimeout(total=60) (llm_filter.py 161-166)
FairEngine ==
    /\ WF_vars(EBegin)
    /\ \A i \in 1..MaxJobs : WF_vars(EStartTask(i))
    /\ \A i \in 1..MaxJobs : WF_vars(EComplete(i))
    /\ WF_vars(EGather)
    /\ WF_vars(EProcess)
SpecEngineLive == SpecEngine /\ FairEngine

InitRouter == CIdle /\ EIdle /\ RInit /\ PIdle /\ TIdle
NextRouter == Route
SpecRouter == InitRouter /\ [][NextRouter]_vars

InitTerms == CIdle /\ EIdle /\ RIdle /\ PIdle /\ TInit
NextTerms == TCollect
SpecTerms == InitTerms /\ [][NextTerms]_vars

\* The run of the source.  With the save_jobs of data_manager.py PSaveAll
\* always ends the run, so PEvaluate, PDispatch and PCommit are never
\* enabled from Init (NoStepPastSave, checked with them in the next-state
\* relation) and Next leaves them out.
Init == CIdle /\ EIdle /\ RIdle /\ PInit /\ TIdle
Next ==
    \/ PStartup
    \/ PInterrupt
    \/ PScrape
    \/ PDedup
    \/ PDedupFails
    \/ PSaveAll
    \/ PSendEmpty
    \/ PNextRun
Spec == Init /\ [][Next]_vars

InitPipeline == CIdle /\ EIdle /\ RIdle /\ PInitPipeline /\ TIdle
NextPipeline ==
    \/ PStartup
    \/ PInterrupt
    \/ PScrape
    \/ PDedup
    \/ PDedupFails
    \/ PSaveAll
    \/ PEvaluate
    \/ PSendEmpty
    \/ PDispatch
    \/ PDispatchInterrupted
    \/ PCommit
    \/ PCommitStops
    \/ PNextRun
SpecPipeline == InitPipeline /\ [][NextPipeline]_vars

\* the run with the LLM filter enabled or disabled
InitFilterModes == CIdle /\ EIdle /\ RIdle /\ PInitFilterModes /\ TIdle
SpecFilterModes == InitFilterModes /\ [][NextPipeline]_vars

\* the run on postings of which some have no job_url
InitNoUrl == CIdle /\ EIdle /\ RIdle /\ PInitNoUrl /\ TIdle
SpecNoUrl == InitNoUrl /\ [][NextPipeline]_vars

\* the source's run under every step of the run
SpecAllSteps == Init /\ [][NextPipeline]_vars
NoStepPastSave == pc \notin {"evaluate", "commit"} /\ store = hist.start_store

(***************************************************************************)
(* Properties.                                                             *)
(***************************************************************************)
Permissive(v) ==
    /\ v.keyword_match /\ v.visa_sponsorship /\ v.entry_level
    /\ ~v.requires_phd /\ ~v.is_internship

\* C1 (SpecEngine): with a concurrency limit of at least 1, the list of
\* (posting, verdict) pairs built before the accept filter has one entry
\* for each of the K input postings, also when K exceeds the limit.
C1_EveryPostingEvaluated ==
    (epc \in {"gathered", "returned"} /\ concurrency >= 1)
        => Len(results) = Len(jobs_list)

\* C2 (Spec): a run ends Aborted only after a collaborator failed; a run
\* whose scraper, dedup lookup, classification and transport all work
\* does not abort.
C2_AbortOnlyOnCollaboratorFailure ==
    pc = "Aborted" => fault # "none"

\* C3 (SpecEngine): in the gathered results every verdict sits beside the
\* posting whose task returned it, whatever the order in which the tasks
\* of the batch completed.
C3_PairingIntegrity ==
    epc \in {"gathered", "returned"} =>
        \A i \in 1..Len(results) :
            /\ results[i][1] = batch[i]
            /\ results[i][2] = taskResult[i]
            /\ results[i][2].job_title = results[i][1].title

\* two tasks completed in the reverse of their creation order, with
\* different verdicts
C3_Witness ==
    /\ epc = "gathered"
    /\ Len(order) >= 2
    /\ order[1] > order[2]
    /\ results[order[1]][2].keyword_match # results[order[2]][2].keyword_match

\* C4 (SpecPipeline): an id that was in the Dedup Store when the run
\* started is neither handed to the classifier nor routed to a recipient
\* in that run.
C4_StoredNeverReprocessed ==
    /\ hist.evaluated \cap hist.start_store = {}
    /\ \A r \in RecipientIds : Range(hist.routed[r]) \cap hist.start_store = {}

\* a second run scraped an id committed by the first, evaluated and
\* committed another one
C4_Witness ==
    /\ run = 2
    /\ pc = "Done"
    /\ hist.scraped \cap hist.start_store # {}
    /\ hist.evaluated # {}
    /\ \E r \in RecipientIds : hist.routed[r] # <<>>
    /\ hist.marked # <<>>

\* the ids routed to some recipient, every one of whose sends failed
DispatchFailed ==
    {u \in UNION {Range(hist.routed[r]) : r \in RecipientIds} :
        \A r \in RecipientIds :
            u \in Range(hist.routed[r]) => email_results[r] = "failed"}

C6_SponsorshipGate ==
    (rpc = "routed" /\ rrecipient.needs_sponsorship) =>
        \A i \in 1..Len(rout) :
            ~(/\ rout[i].llm_evaluation # NoEval
              /\ ~rout[i].llm_evaluation.visa_sponsorship)

\* a subscribed term holds a posting with visa_sponsorship false, and the
\* recipient is still routed something
C6_Witness ==
    /\ rpc = "routed"
    /\ rrecipient.needs_sponsorship
    /\ Len(rout) > 0
    /\ \E j \in Range(CollectJobs(rmap, rrecipient)) :
           /\ j.job_url # 0
           /\ j.llm_evaluation = VisaVerdict(FALSE)

\* the entries of the map filed under a term the recipient subscribes to
Subscribed(map, recipient) ==
    {n \in 1..Len(map) :
        \E t \in Range(recipient.search_terms) : Norm(t) = Norm(map[n][1])}

\* the ids filed under at least two subscribed terms
SharedUrls(map, recipient) ==
    {u \in RouterUrls \ {0} :
        \E m, n \in Subscribed(map, recipient) :
            m # n /\ u \in Urls(map[m][2]) /\ u \in Urls(map[n][2])}

\* the first posting with the id in iteration order of the map
FirstOccurrence(map, recipient, u) ==
    LET first == CHOOSE n \in Subscribed(map, recipient) :
                     /\ u \in Urls(map[n][2])
                     /\ \A m \in Subscribed(map, recipient) :
                            u \in Urls(map[m][2]) => n <= m
        jobs == map[first][2]
        i == CHOOSE i \in 1..Len(jobs) :
                 /\ jobs[i].job_url = u
                 /\ \A k \in 1..(i - 1) : jobs[k].job_url # u
    IN  jobs[i]

Copies(jobs, u) == {i \in 1..Len(jobs) : jobs[i].job_url = u}

\* C7 as claimed (SpecRouter): a posting filed under several subscribed
\* terms is returned exactly once, as its first occurrence.
C7_SharedPostingExactlyOnce ==
    rpc = "routed" =>
        \A u \in SharedUrls(rmap, rrecipient) :
            /\ Cardinality(Copies(rout, u)) = 1
            /\ \A i \in Copies(rout, u) :
                   rout[i] = FirstOccurrence(rmap, rrecipient, u)

\* C7 as amended (SpecRouter): such a posting is returned at most once;
\* once, as its first occurrence, when the recipient does not need
\* sponsorship or that occurrence has visa_sponsorship true, otherwise not
\* at all.
C7_SharedPostingOnceIfGated ==
    rpc = "routed" =>
        \A u \in SharedUrls(rmap, rrecipient) :
            LET first == FirstOccurrence(rmap, rrecipient, u)
            IN  IF ~rrecipient.needs_sponsorship \/ VisaFlag(first)
                THEN /\ Cardinality(Copies(rout, u)) = 1
                     /\ \A i \in Copies(rout, u) : rout[i] = first
                ELSE Copies(rout, u) = {}

\* an id filed under both terms with different verdicts, returned once
C7_Witness ==
    /\ rpc = "routed"
    /\ \E u \in SharedUrls(rmap, rrecipient) :
           /\ Cardinality(Copies(rout, u)) = 1
           /\ Cardinality(Copies(CollectJobs(rmap, rrecipient), u)) >= 2
           /\ \E j \in Range(CollectJobs(rmap, rrecipient)) :
                  j.job_url = u /\ VisaFlag(j) # VisaFlag(rout[1])

\* C8 (SpecEngine): an evaluated posting is in the returned list exactly
\* when its verdict has keyword_match, visa_sponsorship and entry_level
\* true and requires_phd and is_internship false.
C8_AcceptedIffPolicy ==
    epc = "returned" =>
        \A i \in 1..Len(results) :
            LET job == results[i][1]
                v == results[i][2]
            IN  (\E k \in 1..Len(filtered) :
                     /\ filtered[k].title = job.title
                     /\ filtered[k].llm_evaluation = v)
                <=> (/\ v.keyword_match /\ v.visa_sponsorship /\ v.entry_level
                     /\ ~v.requires_phd /\ ~v.is_internship)

\* some evaluated postings are returned, an internship is not
C8_Witness ==
    /\ epc = "returned"
    /\ Len(filtered) >= 1
    /\ \E i \in 1..Len(results) :
           /\ results[i][2].is_internship
           /\ results[i][2].keyword_match

\* the upstream failures of C9: no key, status, connection, timeout, and
\* a malformed envelope (body, missing key, wrong type, null content)
UpstreamFailures == Failures \cup {Outcome("null_content", <<>>)}

\* C9 (SpecClassify): evaluate_job_async raises nothing; after a failed
\* upstream call it returns the permissive default verdict, flagged as an
\* error, which passes the accept filter.
C9_FailOpenOnUpstreamFailure ==
    /\ craised = "none"
    /\ (cpc = "done" /\ coutcome \in UpstreamFailures) =>
           /\ Permissive(cverdict)
           /\ cverdict.error
           /\ PassesFilters(cverdict)

\* a call that timed out, and one whose content was null
C9_Witness ==
    /\ cpc = "done"
    /\ coutcome.kind \in {"timeout", "null_content"}
    /\ cverdict.error

\* the text holds a brace span that json.loads accepts
ParsesAsObject(text) ==
    /\ Find(text) >= 0
    /\ RFind(text) + 1 > Find(text)
    /\ JsonLoads(Slice(text, Find(text), RFind(text) + 1))

\* C10 (SpecClassify): a response text that does not parse as a JSON
\* object yields the permissive default verdict with the error status,
\* and the posting is accepted.
C10_UnparseableIsPermissive ==
    (cpc = "done" /\ coutcome.kind = "ok" /\ ~ParsesAsObject(coutcome.text)) =>
        /\ Permissive(cverdict)
        /\ cverdict.error
        /\ PassesFilters(cverdict)

\* C11 (SpecClassify): for a posting whose description is absent or
\* shorter than 50 characters no upstream request is issued; the call
\* returns the skipped verdict, whose five boolean fields are false, and
\* the accept cascade rejects it.
C11_ShortDescriptionSkipped ==
    cjob.desc \in {"none", "short"} =>
        /\ ccalls = 0
        /\ cpc \in {"start", "done"}
        /\ cpc = "done" =>
               /\ cverdict.skipped
               /\ ~cverdict.keyword_match /\ ~cverdict.visa_sponsorship
               /\ ~cverdict.entry_level /\ ~cverdict.requires_phd
               /\ ~cverdict.is_internship
               /\ ~PassesFilters(cverdict)
               /\ ~should_include_job(cverdict)

\* the call for a posting with a short description has returned
C11_Witness ==
    /\ cpc = "done"
    /\ cjob.desc = "short"
    /\ cverdict.skipped
    /\ ccalls = 0

\* C12 (SpecPipeline): the commit step calls mark_as_sent once for each
\* distinct id among the accepted postings of the run and for no id twice,
\* also when a posting was accepted under several search terms.
C12_CommittedOncePerId ==
    /\ \A i, j \in 1..Len(hist.marked) :
           i # j => hist.marked[i] # hist.marked[j]
    /\ (pc = "Done" /\ Len(AllJobs(jobs_by_term)) # 0) =>
           Range(hist.marked) = Urls(AllJobs(jobs_by_term)) \ {0}

\* a run committed an id that was accepted under two search terms
C12_Witness ==
    /\ pc = "Done"
    /\ Len(jobs_by_term) = 2
    /\ \E u \in Urls(jobs_by_term[1][2]) \cap Urls(jobs_by_term[2][2]) :
           u \in Range(hist.marked)

\* C13 (SpecPipeline): the Dedup Store changes only in the commit step;
\* until then it is the store the run started with, so the dedup check
\* gives the same answer for an id under every search term of the run.
C13_StoreWrittenOnlyAtCommit ==
    /\ [](pc \in {"init", "loop", "dedup", "save_all", "evaluate", "commit"}
             => store = hist.start_store)
    /\ [][store' # store => (pc = "commit" /\ pc' \in {"Done", "Aborted"})]_vars

\* a second run accepted one id under both search terms and committed it
C13_Witness ==
    /\ run = 2
    /\ pc = "Done"
    /\ hist.start_store # {}
    /\ store # hist.start_store
    /\ Len(jobs_by_term) = 2
    /\ Urls(jobs_by_term[1][2]) \cap Urls(jobs_by_term[2][2]) # {}

\* C14 (Spec): a run in which no collaborator failed and no posting passed
\* the filters for any search term ends Done, having tried the empty
\* notice for every recipient, sent no digest and left the store as it was.
C14_EmptyRunSendsNotice ==
    (/\ pc \in {"Done", "Aborted"}
     /\ fault = "none"
     /\ Len(AllJobs(jobs_by_term)) = 0) =>
        /\ pc = "Done"
        /\ \A r \in RecipientIds :
               /\ hist.notices[r] # "none"
               /\ hist.sends[r] = "none"
               /\ email_results[r] = "none"
        /\ store = hist.start_store

\* the entries send_daily_digest returned are in email_results
Dispatched == pc = "commit"

\* C15 (SpecPipeline): after send_daily_digest every recipient has an
\* entry of its own; the entry is a failure exactly when the send to that
\* recipient failed, and a send was made for every recipient with a
\* non-empty routed list, whatever happened to the sends before it.
C15_DispatchFailureIsolated ==
    Dispatched =>
        \A r \in RecipientIds :
            /\ email_results[r] \in {"ok", "failed"}
            /\ (email_results[r] = "failed") <=> (hist.sends[r] = "failed")
            /\ hist.routed[r] # <<>> => hist.sends[r] # "none"

\* the send to the first recipient failed, the send to the second worked
C15_Witness ==
    /\ Dispatched
    /\ hist.sends[1] = "failed"
    /\ hist.sends[2] = "ok"
    /\ email_results = <<"failed", "ok">>

\* the classification calls of the batch that are in flight
InFlight == {i \in 1..Len(batch) : task[i] = "inflight"}

\* the limit in force: a configured limit below 1 counts as 1
EffectiveLimit == Max(concurrency, 1)

\* the number of batches the input needs under the limit in force
BatchesNeeded == (Len(jobs_list) + EffectiveLimit - 1) \div EffectiveLimit

\* C16 (SpecEngine): at every moment of an evaluation the number of
\* classification calls in flight is at most the concurrency limit (the
\* engine runs a single batch, so no call of a later batch can precede the
\* end of an earlier one).
C16_InFlightWithinLimit ==
    Cardinality(InFlight) <= EffectiveLimit

\* C17 (SpecEngine): with a limit of at least 1 the engine has slept once
\* between every two consecutive batches the input needs when the
\* evaluation ends, and not after the last one.
C17_SleepBetweenBatches ==
    (epc \in {"gathered", "returned"} /\ concurrency >= 1
        /\ Len(jobs_list) > 0) =>
        sleeps = BatchesNeeded - 1

\* C18 (SpecEngine): with a limit of 0 or below the calls are made one at
\* a time and every input posting has a verdict when the evaluation ends.
C18_NonPositiveLimitIsOne ==
    concurrency <= 0 =>
        /\ Cardinality(InFlight) <= 1
        /\ epc \in {"gathered", "returned"} => Len(results) = Len(jobs_list)

\* the steps of a run: scrape, dedup check, save and evaluation term by
\* term, then routing and dispatch, then the commit; a fatal error from any
\* step; the next run
StepOrder ==
    {<<"init", "loop">>,
     <<"loop", "dedup">>, <<"dedup", "loop">>, <<"dedup", "save_all">>,
     <<"save_all", "evaluate">>, <<"evaluate", "loop">>,
     <<"loop", "commit">>, <<"commit", "Done">>, <<"loop", "Done">>,
     <<"Done", "init">>, <<"Aborted", "init">>}
        \cup {<<p, "Aborted">> : p \in {"init", "loop", "dedup", "save_all",
                                        "evaluate", "commit"}}

\* C19 (SpecPipeline): the steps of a run follow the order scrape, dedup,
\* evaluate (term by term), route and dispatch, commit, done; a digest is
\* sent only after every search term has been evaluated, and the store is
\* written only after dispatch was tried for every recipient.
C19_StepOrder ==
    /\ []((\E r \in RecipientIds :
              hist.sends[r] # "none" \/ email_results[r] # "none")
            => /\ Len(jobs_by_term) = Len(all_search_terms)
               /\ pc \in {"commit", "Done"})
    /\ [](store # hist.start_store
            => \/ /\ pc = "Done"
                  /\ \A r \in RecipientIds : email_results[r] # "none"
                  /\ \A r \in RecipientIds :
                         hist.routed[r] # <<>> => hist.sends[r] # "none"
               \/ /\ pc = "Aborted"
                  /\ hist.stopped_at = "commit")
    /\ [][pc' # pc => <<pc, pc'>> \in StepOrder]_vars

\* a run went through every step: it scraped, evaluated, sent a digest
\* and committed
C19_Witness ==
    /\ pc = "Done"
    /\ run = 1
    /\ hist.scraped # {}
    /\ hist.evaluated # {}
    /\ \E r \in RecipientIds : hist.sends[r] # "none"
    /\ hist.marked # <<>>
    /\ store # hist.start_store

\* C20 (SpecPipeline): the terms are handled one at a time in configured
\* order: when term i is being scraped, checked or evaluated the lists of
\* the terms before it, and only those, are recorded in jobs_by_term, and
\* routing starts with a list (possibly empty) recorded for every term.
C20_TermsInOrder ==
    /\ \A i \in 1..Len(jobs_by_term) : jobs_by_term[i][1] = all_search_terms[i]
    /\ pc \in {"loop", "dedup", "save_all", "evaluate"} =>
           /\ Len(jobs_by_term) = term_idx - 1
           /\ term_idx <= Len(all_search_terms) + 1
    /\ pc \in {"dedup", "save_all", "evaluate"} =>
           term_idx <= Len(all_search_terms)
    /\ (pc = "commit" \/ \E r \in RecipientIds : email_results[r] # "none") =>
           Len(jobs_by_term) = Len(all_search_terms)

\* routing began with an empty list recorded for the first term and an
\* accepted posting for the second
C20_Witness ==
    /\ pc = "commit"
    /\ Len(jobs_by_term) = 2
    /\ jobs_by_term[1] = <<all_search_terms[1], <<>>>>
    /\ Len(jobs_by_term[2][2]) > 0

UpToDispatch == {"loop", "dedup", "save_all", "evaluate", "dispatch"}

\* C22 (SpecPipeline): after an interrupt that arrived in a step up to and
\* including dispatch the run is over, nothing of it was committed, and
\* the only step that follows is the start of the next run.
C22_InterruptCommitsNothing ==
    /\ [](hist.stopped_at \in UpToDispatch
            => /\ pc = "Aborted"
               /\ fault = "interrupt"
               /\ store = hist.start_store
               /\ hist.marked = <<>>)
    /\ [][hist.stopped_at \in UpToDispatch
            => (pc' = "init" /\ run' = run + 1 /\ store' = store)]_vars

\* a run was interrupted while it was sending the digests
C22_Witness ==
    /\ pc = "Aborted"
    /\ fault = "interrupt"
    /\ hist.stopped_at = "dispatch"

\* C23 (Spec): the exit status is 0 for a run that ended Done and
\* non-zero for a run that ended Aborted, by an error or by an interrupt.
C23_ExitCode ==
    /\ pc = "Done" => ExitCode(pc, fault) = 0
    /\ pc = "Aborted" => ExitCode(pc, fault) # 0

\* no usable recipient, or a credential the configuration needs is missing
BadConfiguration ==
    \/ ~env.recipients
    \/ ~env.resend_key
    \/ (env.use_llm_filter /\ ~env.openrouter_key)

\* C24 (Spec): with no recipient or a missing credential the process
\* leaves start-up only by exiting non-zero; nothing is scraped, evaluated,
\* sent or committed.
C24_BadConfigurationIsFatal ==
    BadConfiguration =>
        /\ pc \in {"init", "Aborted"}
        /\ pc = "Aborted" => (fault = "config" /\ ExitCode(pc, fault) # 0)
        /\ hist = NewHist(hist.start_store)
        /\ store = hist.start_store
        /\ jobs_by_term = <<>>
        /\ \A r \in RecipientIds : email_results[r] = "none"

\* start-up failed for a missing RESEND_API_KEY with recipients configured
C24_Witness ==
    /\ pc = "Aborted"
    /\ fault = "config"
    /\ env.recipients
    /\ ~env.resend_key

SubscribedUrls(map, recipient) ==
    UNION {Urls(map[n][2]) : n \in Subscribed(map, recipient)} \ {0}

\* C26 (SpecRouter): every posting routed to a recipient is filed under a
\* term the recipient subscribes to (compared in lower case, trimmed);
\* a recipient that does not need sponsorship is routed each id filed
\* under a subscribed term once, whatever its visa_sponsorship.
C26_RoutedBySubscription ==
    rpc = "routed" =>
        /\ \A i \in 1..Len(rout) :
               \E n \in Subscribed(rmap, rrecipient) :
                   rout[i] \in Range(rmap[n][2])
        /\ ~rrecipient.needs_sponsorship =>
               \A u \in SubscribedUrls(rmap, rrecipient) :
                   Cardinality(Copies(rout, u)) = 1

\* a recipient whose terms differ from the map's keys in case and spaces,
\* without need of sponsorship, is routed a posting with visa_sponsorship
\* false from the list filed under "T2"
C26_Witness ==
    /\ rpc = "routed"
    /\ ~rrecipient.needs_sponsorship
    /\ rrecipient.search_terms = <<" T1 ", "t2">>
    /\ \E i \in 1..Len(rout) :
           /\ rout[i].llm_evaluation = VisaVerdict(FALSE)
           /\ rout[i] \in Range(rmap[2][2])
           /\ rout[i] \notin Range(rmap[1][2])

\* C27 (SpecEngine): the returned list is a subsequence of the input: each
\* returned posting is an input posting (with its verdict attached), and
\* the returned postings are in the order they have in the input.
C27_OutputIsSubsequence ==
    epc = "returned" =>
        /\ \A k \in 1..Len(filtered) :
               /\ filtered[k].title \in 1..Len(jobs_list)
               /\ [filtered[k] EXCEPT !.llm_evaluation = NoEval]
                      = jobs_list[filtered[k].title]
        /\ \A k, l \in 1..Len(filtered) :
               k < l => filtered[k].title < filtered[l].title

\* two postings were accepted, the second one's call having completed
\* first
C27_Witness ==
    /\ epc = "returned"
    /\ Len(filtered) = 2
    /\ Len(order) = 2
    /\ order[1] = 2

\* the object of the response: the span from the first '{' to the last '}'
ObjectOf(text) == Slice(text, Find(text), RFind(text) + 1)

\* the positions of the pairs with the key in the object
Present(object, key) ==
    {i \in 1..Len(object) : object[i].t = "pair" /\ object[i].k = key}

PermissiveDefault(key) == key \in {"keyword_match", "visa_sponsorship", "entry_level"}

\* the value the object gives the key (the last one, when it gives
\* several), the permissive default when it gives none
ExpectedField(text, key) ==
    LET object == ObjectOf(text)
    IN  IF Present(object, key) = {} THEN PermissiveDefault(key)
        ELSE LET last == CHOOSE i \in Present(object, key) :
                             \A j \in Present(object, key) : j <= i
             IN  object[last].v

\* C28 (SpecClassify): when the response parses as a JSON object, each
\* verdict field the object has keeps the judge's value and each field it
\* lacks is true for keyword_match, visa_sponsorship and entry_level and
\* false for requires_phd and is_internship.
C28_AbsentFieldsPermissive ==
    (cpc = "done" /\ coutcome.kind = "ok" /\ ParsesAsObject(coutcome.text)) =>
        /\ cverdict.keyword_match = ExpectedField(coutcome.text, "keyword_match")
        /\ cverdict.visa_sponsorship = ExpectedField(coutcome.text, "visa_sponsorship")
        /\ cverdict.entry_level = ExpectedField(coutcome.text, "entry_level")
        /\ cverdict.requires_phd = ExpectedField(coutcome.text, "requires_phd")
        /\ cverdict.is_internship = ExpectedField(coutcome.text, "is_internship")
        /\ ~cverdict.skipped /\ ~cverdict.error

\* the object gave one field only, with the value opposite to its default
C28_Witness ==
    /\ cpc = "done"
    /\ coutcome.kind = "ok"
    /\ coutcome.text = <<LBrace, Pair("entry_level", FALSE), RBrace>>
    /\ cverdict.keyword_match
    /\ ~cverdict.entry_level

\* the delay the engine has for a model without the free-tier marker
NonFreeDelay ==
    RateLimitDelay("liquid/lfm-2.5-1.2b-instruct", DefaultRateLimitDelay)

\* C29 (SpecEngine): an engine built for a model whose name holds ':free'
\* has a larger inter-batch delay than one built for another model.
C29_FreeModelDelayLarger ==
    (epc # "idle" /\ IsFreeModel(model)) => rate_limit_delay > NonFreeDelay

\* C30 (SpecEngine): for an empty input no session is opened, no task is
\* created and the returned list is empty.
C30_EmptyInputNoNetwork ==
    (epc # "idle" /\ Len(jobs_list) = 0) =>
        /\ sessions = 0
        /\ batch = <<>> /\ task = <<>>
        /\ epc \in {"start", "returned"}
        /\ results = <<>> /\ filtered = <<>> /\ sleeps = 0

\* the call for an empty list has returned
C30_Witness ==
    /\ epc = "returned"
    /\ jobs_list = <<>>
    /\ sessions = 0
    /\ filtered = <<>>

\* the ids of the postings filed in jobs_by_term; a posting without a
\* job_url has none
AcceptedIds(map) == Urls(AllJobs(map)) \ {0}

\* C31 (SpecFilterModes): a run that ends after send_daily_digest returned
\* has committed the id of every accepted posting of every search term,
\* once each, whatever entries email_results holds and whether or not the
\* posting was routed to a recipient.
C31_CommitRegardlessOfSends ==
    (pc = "Done" /\ Len(AllJobs(jobs_by_term)) # 0) =>
        /\ Range(hist.marked) = AcceptedIds(jobs_by_term)
        /\ store = hist.start_store \cup AcceptedIds(jobs_by_term)
        /\ \A i, k \in 1..Len(hist.marked) :
               hist.marked[i] = hist.marked[k] => i = k

\* the only send of the run failed, and a committed posting was routed to
\* no recipient
C31_Witness ==
    /\ pc = "Done"
    /\ hist.sends[1] = "failed"
    /\ \E u \in Range(hist.marked) :
           /\ u \in store
           /\ \A r \in RecipientIds : u \notin Range(hist.routed[r])

\* task i of the batch exists and is in the given state
TaskIs(i, st) == i \in DOMAIN task /\ task[i] = st

\* C32 (SpecEngineLive): every classification call that is issued ends
\* with a verdict for its posting, the results hold one verdict per posting
\* of the batch, and the call of filter_jobs_async returns.
C32_EveryCallResolves ==
    /\ \A i \in 1..MaxJobs :
           (epc = "batch" /\ TaskIs(i, "inflight"))
               ~> (TaskIs(i, "done") /\ taskResult[i] # NoEval)
    /\ [](epc \in {"gathered", "returned"} =>
             /\ Len(results) = Len(batch)
             /\ \A i \in 1..Len(results) : results[i][2] # NoEval)
    /\ <>(epc = "returned")

\* the call returned after two upstream calls, one of which timed out
C32_Witness ==
    /\ epc = "returned"
    /\ Len(order) >= 2
    /\ \E i \in 1..Len(results) :
           results[i][2].error /\ results[i][2].reason = "Error"
    /\ \E i \in 1..Len(results) : ~results[i][2].error /\ ~results[i][2].skipped

\* the text holds no brace
IsCommentary(text) == \A i \in 1..Len(text) : text[i] \in Commentary

\* the splits of a text into commentary, a valid JSON object, commentary
ObjectSplits(text) ==
    {ab \in (0..Len(text)) \X (0..Len(text)) :
        /\ ab[1] < ab[2]
        /\ IsCommentary(SubSeq(text, 1, ab[1]))
        /\ JsonLoads(SubSeq(text, ab[1] + 1, ab[2]))
        /\ IsCommentary(SubSeq(text, ab[2] + 1, Len(text)))}

\* C33 (SpecClassify): for a response made of commentary without braces, a
\* valid JSON object and commentary without braces, the verdict is the one
\* of the object alone, and each key the object gives once has the
\* object's value.
C33_CommentaryIgnored ==
    (cpc = "done" /\ coutcome.kind = "ok" /\ ~Skips(cjob)) =>
        \A ab \in ObjectSplits(coutcome.text) :
            LET object == SubSeq(coutcome.text, ab[1] + 1, ab[2])
            IN  /\ cverdict = [_parse_response(object) EXCEPT
                                  !.job_title = cjob.title]
                /\ \A k \in Keys, v \in BOOLEAN :
                       (/\ \E i \in 1..Len(object) : object[i] = Pair(k, v)
                        /\ ~\E i \in 1..Len(object) : object[i] = Pair(k, ~v))
                           => cverdict[k] = v

\* commentary speaking of no sponsorship on both sides of an object that
\* rejects on entry_level only
C33_Witness ==
    /\ cpc = "done"
    /\ coutcome.kind = "ok"
    /\ coutcome.text = <<NoSponsorWords, LBrace, Pair("entry_level", FALSE),
                         RBrace, Pair("keyword_match", FALSE)>>
    /\ ~cverdict.entry_level
    /\ cverdict.keyword_match
    /\ cverdict.visa_sponsorship

\* the positions in the input list of the postings that were returned
AcceptedPositions == {filtered[k].title : k \in 1..Len(filtered)}

\* C34 (SpecEngine): the dicts of the input list are as they were passed
\* until the call processes its results; after it an accepted posting
\* differs from what was passed in the key llm_evaluation only, which holds
\* its verdict, and every other posting is as it was passed.
C34_OnlyVerdictAttached ==
    /\ epc \in {"start", "batch", "gathered"} => dicts = jobs_list
    /\ epc = "returned" =>
           /\ Len(dicts) = Len(jobs_list)
           /\ \A i \in 1..Len(jobs_list) :
                  IF i \in AcceptedPositions
                  THEN /\ dicts[i] = [jobs_list[i] EXCEPT
                                         !.llm_evaluation = results[i][2]]
                       /\ \E k \in 1..Len(filtered) : filtered[k] = dicts[i]
                  ELSE dicts[i] = jobs_list[i]

\* one posting accepted and one rejected by its verdict
C34_Witness ==
    /\ epc = "returned"
    /\ Len(results) = 2
    /\ Len(filtered) = 1
    /\ \E i \in 1..2 :
           /\ ~results[i][2].skipped
           /\ ~results[i][2].keyword_match
           /\ dicts[i] = jobs_list[i]
    /\ \E i \in 1..2 :
           /\ dicts[i].llm_evaluation = results[i][2]
           /\ dicts[i] # jobs_list[i]

\* every term of every recipient, in the order of the configuration
SubscribedTerms(recipients) == Flatten(recipients)

\* the position of the first term of the list that equals t after
\* lower-casing and trimming
FirstOccurrenceOfTerm(terms, t) ==
    CHOOSE i \in 1..Len(terms) :
        /\ Norm(terms[i]) = Norm(t)
        /\ \A j \in 1..(i - 1) : Norm(terms[j]) # Norm(t)

\* jobs_by_term as run() fills it: one posting filed under each term
FiledUnder(terms) ==
    [i \in 1..Len(terms) |-> <<terms[i], <<Job(i, i, "long")>>>>]

\* C35 (SpecTerms): the returned terms differ pairwise after lower-casing
\* and trimming, none is blank, each is the trimmed spelling of the first
\* occurrence of its term, they are in the order of those first
\* occurrences, every non-blank subscribed term is matched by exactly one
\* of them, and a posting filed under that one is collected for the
\* subscriber.
C35_TermsUniqueAndMatched ==
    tpc = "collected" =>
        LET all == SubscribedTerms(trecipients)
        IN  /\ \A i, k \in 1..Len(tterms) :
                   Norm(tterms[i]) = Norm(tterms[k]) => i = k
            /\ \A i \in 1..Len(tterms) :
                   /\ Norm(tterms[i]) # ""
                   /\ \E p \in 1..Len(all) :
                          /\ Norm(all[p]) = Norm(tterms[i])
                          /\ p = FirstOccurrenceOfTerm(all, tterms[i])
                          /\ tterms[i] = Strip(all[p])
            /\ \A i, k \in 1..Len(tterms) :
                   i < k => FirstOccurrenceOfTerm(all, tterms[i])
                                < FirstOccurrenceOfTerm(all, tterms[k])
            /\ \A r \in 1..Len(trecipients) :
                   \A t \in Range(trecipients[r].search_terms) :
                       Norm(t) # "" =>
                           /\ Cardinality({i \in 1..Len(tterms) :
                                              Norm(tterms[i]) = Norm(t)}) = 1
                           /\ \E i \in 1..Len(tterms) :
                                  /\ Norm(tterms[i]) = Norm(t)
                                  /\ FiledUnder(tterms)[i][2][1] \in
                                         Range(CollectJobs(FiledUnder(tterms),
                                                           trecipients[r]))

\* two recipients spell the same term differently; the first spelling,
\* trimmed, is the one returned, before the second recipient's other term
C35_Witness ==
    /\ tpc = "collected"
    /\ Len(trecipients) = 2
    /\ trecipients[1].search_terms = <<" T1 ", "">>
    /\ trecipients[2].search_terms = <<"t1", "t2">>
    /\ tterms = <<"T1", "t2">>

\* C36 (SpecClassify): on the verdict of every evaluation that returned,
\* skipped, parsed or error default, the cascade of filter_jobs_async and
\* should_include_job decide alike.
C36_CascadeEqualsPredicate ==
    (cpc = "done" /\ craised = "none") =>
        /\ cverdict # NoEval
        /\ PassesFilters(cverdict) <=> should_include_job(cverdict)

\* a skipped posting: the cascade stops at the key skipped, the predicate
\* at keyword_match
C36_Witness ==
    /\ cpc = "done"
    /\ craised = "none"
    /\ cverdict.skipped
    /\ ~PassesFilters(cverdict)
    /\ ~should_include_job(cverdict)

\* C37 (SpecNoUrl): a posting without a job_url (0) is in no recipient's
\* routed list, is not passed to mark_as_sent and is not in the store; when
\* it is scraped, in the first run or a later one, it is among the new
\* postings.
C37_NoUrlNeverRoutedNorCommitted ==
    /\ 0 \notin store
    /\ 0 \notin Range(hist.marked)
    /\ \A r \in RecipientIds : 0 \notin Range(hist.routed[r])
    /\ pc \in {"save_all", "evaluate"} =>
           \A i \in 1..Len(jobs_df) :
               jobs_df[i].job_url = 0 => jobs_df[i] \in Range(new_jobs)

\* the second run ended after its commit step, the first having committed
\* a posting; a posting without a job_url was accepted in it, no recipient
\* was sent anything and nothing was committed
C37_Witness ==
    /\ pc = "Done"
    /\ run = 2
    /\ hist.start_store # {}
    /\ hist.marked = <<>>
    /\ \A r \in RecipientIds : hist.sends[r] = "none"
    /\ \E j \in Range(AllJobs(jobs_by_term)) :
           j.job_url = 0 /\ j.llm_evaluation # NoEval
    /\ 0 \notin store

\* C38 (SpecFilterModes): with the LLM filter disabled no posting filed in
\* jobs_by_term has a verdict, no recipient who needs sponsorship is routed
\* or sent a posting, and a run that ends after its commit step has
\* committed the ids of the postings all the same.
C38_FallbackStarvesSponsorship ==
    ~env.use_llm_filter =>
        /\ \A j \in Range(AllJobs(jobs_by_term)) : j.llm_evaluation = NoEval
        /\ \A r \in RecipientIds :
               Recipients[r].needs_sponsorship =>
                   /\ filter_jobs_for_recipient(jobs_by_term, Recipients[r]) = <<>>
                   /\ hist.routed[r] = <<>>
                   /\ hist.sends[r] = "none"
        /\ (pc = "Done" /\ Len(AllJobs(jobs_by_term)) # 0) =>
               /\ Range(hist.marked) = AcceptedIds(jobs_by_term)
               /\ AcceptedIds(jobs_by_term) \subseteq store

\* a posting passed the rules under the term only the recipient who needs
\* sponsorship subscribes to: that recipient has a success entry, was sent
\* nothing, and the posting is committed
C38_Witness ==
    /\ ~env.use_llm_filter
    /\ pc = "Done"
    /\ Len(jobs_by_term) = 2
    /\ jobs_by_term[1][2] = <<>>
    /\ jobs_by_term[2][2] # <<>>
    /\ Recipients[2].needs_sponsorship
    /\ email_results[2] = "ok"
    /\ hist.sends[2] = "none"
    /\ hist.marked # <<>>
    /\ Range(hist.marked) \subseteq store

====
